---------------------------- MODULE Spec2Model ----------------------------
(***************************************************************************)
(* A model of react-scan's change detection (core/instrumentation) and of  *)
(* its outline lifecycle (core/index.ts, web/outline.ts).                  *)
(***************************************************************************)
EXTENDS Integers, Sequences, FiniteSets, TLC

VARIABLES
    input,              \* argument of the pure function a function-level specification applies
    output,             \* its result
    inited,             \* core/index.ts inited: start() has run
    options,            \* ReactScanInternals.options (the fields the engine reads)
    isPaused,           \* ReactScanInternals.isPaused
    componentAllowList, \* ReactScanInternals.componentAllowList
    registrations,      \* per component, the options of the last withScan that registered it
    scheduledOutlines,  \* ReactScanInternals.scheduledOutlines
    activeOutlines,     \* ReactScanInternals.activeOutlines
    reportData,         \* ReactScanInternals.reportData
    animationFrameId,   \* web/outline: the pending fadeOutOutline frame, or null
    rafQueue,           \* requestAnimationFrame callbacks waiting for the next frame
    frameBatch,         \* callbacks of the frame being run that have not run yet
    rectCache,          \* web/outline rectCache: the entries still fresh
    callLog,            \* consumer callbacks invoked by the step just taken
    outcome,            \* how the commit handler just called came back to the host
    nEvents,            \* Render events delivered to onRender so far
    nextId              \* genId(): the next ActiveOutline id

vars == <<input, output, inited, options, isPaused, componentAllowList, registrations, scheduledOutlines,
          activeOutlines, reportData, animationFrameId, rafQueue, frameBatch,
          rectCache, callLog, outcome, nEvents, nextId>>

fnVars == <<input, output>>

engineVars == <<inited, options, isPaused, componentAllowList, registrations, scheduledOutlines,
                activeOutlines, reportData, animationFrameId, rafQueue, frameBatch,
                rectCache, callLog, outcome, nEvents, nextId>>

(***************************************************************************)
(* JavaScript values.  A value is known by its identity (Object.is), its   *)
(* typeof, whether React.isValidElement accepts it, and the text that      *)
(* fastSerialize gives for it.  Two primitives with the same typeof and    *)
(* text are the same value; two objects may differ and serialize alike.    *)
(***************************************************************************)
Undefined == [id |-> 0, typeof |-> "undefined", element |-> FALSE, text |-> "undefined"]

Values ==
    { Undefined,
      [id |-> 1, typeof |-> "number",   element |-> FALSE, text |-> "1"],
      [id |-> 2, typeof |-> "string",   element |-> FALSE, text |-> "1"],
      [id |-> 3, typeof |-> "object",   element |-> FALSE, text |-> "{}"],
      [id |-> 4, typeof |-> "object",   element |-> FALSE, text |-> "{}"],
      [id |-> 5, typeof |-> "function", element |-> FALSE, text |-> "()=>{}"],
      [id |-> 6, typeof |-> "function", element |-> FALSE, text |-> "()=>{}"],
      [id |-> 7, typeof |-> "object",   element |-> TRUE,  text |-> "<div>"] }

ObjectIs(a, b) == a.id = b.id

isValidElement(v) == v.element

fastSerialize(v) == v.text

unstableTypes == {"function", "object"}

(***************************************************************************)
(* Props objects.  A props object maps each of PropNames to a value or to  *)
(* Absent (the key is not in the object); reading an absent key, or any    *)
(* key of the undefined props of a fiber without alternate, is undefined.  *)
(***************************************************************************)
Absent == [id |-> -1, typeof |-> "absent", element |-> FALSE, text |-> ""]

PropNames == <<"children", "x", "y">>

NoProps == [children |-> Absent, x |-> Absent, y |-> Absent]

GetProp(props, propName) ==
    IF props[propName] = Absent THEN Undefined ELSE props[propName]

\* for (const propName in { ...prevProps, ...nextProps })
PropKeys(prevProps, nextProps) ==
    SelectSeq(PropNames,
              LAMBDA k : prevProps[k] # Absent \/ nextProps[k] # Absent)

\* getPropsRender's loop body without the typeof tests: equal serializations
\* alone make a Change unstable.
PropChangeBySerialization(propName, prevValue, nextValue) ==
    IF \/ ObjectIs(prevValue, nextValue)
       \/ isValidElement(prevValue)
       \/ isValidElement(nextValue)
       \/ propName = "children"
    THEN <<>>
    ELSE <<[name      |-> propName,
            prevValue |-> prevValue,
            nextValue |-> nextValue,
            unstable  |-> fastSerialize(prevValue) = fastSerialize(nextValue)]>>

\* The body of getPropsRender's loop for one key: the Changes it pushes.
PropChange(propName, prevValue, nextValue) ==
    IF \/ ObjectIs(prevValue, nextValue)
       \/ isValidElement(prevValue)
       \/ isValidElement(nextValue)
       \/ propName = "children"
    THEN <<>>
    ELSE <<[name      |-> propName,
            prevValue |-> prevValue,
            nextValue |-> nextValue,
            unstable  |-> ~ \/ prevValue.typeof \notin unstableTypes
                            \/ nextValue.typeof \notin unstableTypes
                            \/ fastSerialize(prevValue) # fastSerialize(nextValue)]>>

RECURSIVE PropChanges(_, _, _)
PropChanges(keys, prevProps, nextProps) ==
    IF keys = <<>> THEN <<>>
    ELSE PropChange(Head(keys), GetProp(prevProps, Head(keys)),
                    GetProp(nextProps, Head(keys)))
         \o PropChanges(Tail(keys), prevProps, nextProps)

NoRender == [type |-> "null"]

getPropsRender(fiber) ==
    [type    |-> "props",
     count   |-> 1,
     trigger |-> FALSE,
     changes |-> PropChanges(PropKeys(fiber.prevProps, fiber.nextProps),
                             fiber.prevProps, fiber.nextProps),
     name    |-> fiber.name,
     time    |-> fiber.time,
     forget  |-> fiber.forget]

\* The callback getContextRender hands to traverseContexts: one Change per call.
ContextChange(prevValue, nextValue) ==
    [name      |-> "",
     prevValue |-> prevValue,
     nextValue |-> nextValue,
     unstable  |-> /\ prevValue.typeof \in unstableTypes
                   /\ nextValue.typeof \in unstableTypes
                   /\ fastSerialize(prevValue) = fastSerialize(nextValue)]

\* traverseContexts (instrumentation/fiber): walks the fiber's context
\* dependencies, calls the callback on each previous/next pair, and reports
\* whether the fiber has any.
RECURSIVE traverseContexts(_)
traverseContexts(deps) ==
    IF deps = <<>> THEN <<>>
    ELSE <<ContextChange(Head(deps).prev, Head(deps).next)>>
         \o traverseContexts(Tail(deps))

getContextRender(fiber) ==
    LET changes == traverseContexts(fiber.deps)
        result  == fiber.deps # <<>>
    IN  IF ~result THEN NoRender
        ELSE [type    |-> "context",
              count   |-> 1,
              trigger |-> FALSE,
              changes |-> changes,
              name    |-> fiber.name,
              time    |-> fiber.time,
              forget  |-> fiber.forget]


(***************************************************************************)
(* The host: a committed tree of three fibers in traversal order, the host *)
(* root 0 (no nameable type), component A (fiber 1) and its child,         *)
(* component B (fiber 2), and the DOM node both of them draw.              *)
(***************************************************************************)
NoType == "null"

NoFiber == -1

WalkOrder == <<0, 1, 2>>

ComponentFibers == {1, 2}

ComponentTypes == {"A", "B"}

FiberType(f) == CASE f = 1 -> "A" [] f = 2 -> "B" [] OTHER -> NoType

\* fiber.return
Parent(f) == CASE f = 2 -> 1 [] f = 1 -> 0 [] OTHER -> NoFiber

DomNodes == {1}

NoNode == 0

\* getNearestHostFiber(fiber).stateNode: the DOM node a fiber draws.
HostNode(f) == IF f \in ComponentFibers THEN 1 ELSE NoNode

\* fiber.stateNode, when it is an HTMLElement (fiber 2), else NoNode.
StateNode(f) == IF f = 2 THEN 1 ELSE NoNode

\* Nodes under a data-react-scan-ignore attribute.
IgnoredNodes == {}

NoRect == [top |-> -1, left |-> -1, width |-> 0, height |-> 0]

Rects == { [top |-> 0,  left |-> 0, width |-> 10, height |-> 10],
           [top |-> 20, left |-> 0, width |-> 10, height |-> 10] }

\* `${rect.top}-${rect.left}-${rect.width}-${rect.height}`
getOutlineKey(rect) == <<rect.top, rect.left, rect.width, rect.height>>

\* window.self !== window.top, and Internals.isProd (never set: null).
isInIframe == FALSE

isProd == FALSE

(***************************************************************************)
(* The allow-list: null until created, then a table from component type to *)
(* the options registered for it.                                          *)
(***************************************************************************)
NoOptions == [registered |-> FALSE, includeChildren |-> FALSE]

NullAllowList == [created |-> FALSE, table |-> [t \in ComponentTypes |-> NoOptions]]

\* allowList?.has(type) ?? allowList?.has(elementType)
AllowListHas(allowList, type) ==
    /\ allowList.created
    /\ type \in ComponentTypes
    /\ allowList.table[type].registered

\* (allowList?.get(node.type) ?? allowList?.get(node.elementType))?.includeChildren
AllowListIncludesChildren(allowList, type) ==
    /\ AllowListHas(allowList, type)
    /\ allowList.table[type].includeChildren

\* traverseFiber(fiber, selector, true): the fiber or its nearest ancestor that
\* the selector accepts, else none.
RECURSIVE traverseFiberAscending(_, _)
traverseFiberAscending(f, allowList) ==
    IF f = NoFiber THEN NoFiber
    ELSE IF AllowListIncludesChildren(allowList, FiberType(f)) THEN f
    ELSE traverseFiberAscending(Parent(f), allowList)

\* instrumentation/utils getType: the component function of a nameable type.
getType(type) == IF type \in ComponentTypes THEN type ELSE NoType

\* handleFiber: the onRender calls one visit of a fiber makes, in order.
handleFiber(fiber, trigger, allowList) ==
    IF getType(fiber.type) = NoType THEN <<>>
    ELSE IF ~fiber.rendered THEN <<>>
    ELSE
      LET propsRender   == getPropsRender(fiber)
          contextRender == getContextRender(fiber)
          shouldAllow   == AllowListHas(allowList, fiber.type)
          parent        == traverseFiberAscending(fiber.id, allowList)
      IN  IF propsRender = NoRender /\ contextRender = NoRender THEN <<>>
          ELSE IF shouldAllow /\ (parent = NoFiber /\ ~shouldAllow) THEN <<>>
          ELSE (IF propsRender # NoRender
                THEN <<[fiber |-> fiber.id,
                        render |-> [propsRender EXCEPT !.trigger = trigger]]>>
                ELSE <<>>)
               \o
               (IF contextRender # NoRender
                THEN <<[fiber |-> fiber.id,
                        render |-> [contextRender EXCEPT !.trigger = trigger]]>>
                ELSE <<>>)

RECURSIVE handleFibers(_, _, _, _)
handleFibers(ids, fibers, trigger, allowList) ==
    IF ids = <<>> THEN <<>>
    ELSE handleFiber(fibers[Head(ids)], trigger, allowList)
         \o handleFibers(Tail(ids), fibers, trigger, allowList)

\* The walk of handleCommitFiberRoot: root.memoizedUpdaters with trigger, then
\* traverseFiber(root.current, ...) over the whole tree without.
CommitWalk(commit, allowList) ==
    handleFibers(commit.updaters, commit.fibers, TRUE, allowList)
    \o handleFibers(WalkOrder, commit.fibers, FALSE, allowList)

(***************************************************************************)
(* Geometry.                                                               *)
(***************************************************************************)
\* getRect: a fresh cache entry wins; else the node's rectangle is computed,
\* null (NoRect) when hidden, off-screen or empty, and cached when not.
getRect(dom, cache, node) ==
    IF cache[node] # NoRect THEN [rect |-> cache[node], cache |-> cache]
    ELSE IF dom[node] = NoRect THEN [rect |-> NoRect, cache |-> cache]
    ELSE [rect |-> dom[node], cache |-> [cache EXCEPT ![node] = dom[node]]]

NoOutline == [fiber |-> NoFiber, rect |-> NoRect, renders |-> <<>>]

\* getOutline(fiber, render): the PendingOutline, or NoOutline for null, and
\* the cache after the lookup.
getOutline(dom, cache, f, render) ==
    LET domNode == HostNode(f)
        got     == getRect(dom, cache, domNode)
    IN  IF domNode = NoNode \/ domNode \in IgnoredNodes
        THEN [outline |-> NoOutline, cache |-> cache]
        ELSE IF got.rect = NoRect
        THEN [outline |-> NoOutline, cache |-> got.cache]
        ELSE [outline |-> [fiber |-> f, rect |-> got.rect, renders |-> <<render>>],
              cache   |-> got.cache]

\* getDisplayName(type) of a component without a name
NoName == "null"

NoReport == [count |-> 0, time |-> 0, renders |-> <<>>, present |-> FALSE]

FlushCallback ==
    [kind |-> "flushOutlines", first |-> <<>>, previous |-> {}, id |-> 0, fiber |-> NoFiber]

\* start()'s onRender asking for a flush before it looks at the outline, so
\* also for an event whose geometry does not resolve.
onRenderFlushingAlways(st, dom, f, render) ==
    LET got    == getOutline(dom, st.rectCache, f, render)
        report == st.reportData[render.name]
    IN  IF got.outline = NoOutline
        THEN [st EXCEPT !.rectCache = got.cache,
                        !.rafQueue = Append(@, FlushCallback)]
        ELSE [st EXCEPT
                !.rectCache = got.cache,
                !.scheduledOutlines = Append(@, got.outline),
                !.reportData =
                    IF render.name = NoName THEN @
                    ELSE [@ EXCEPT ![render.name] =
                            [count   |-> report.count + render.count,
                             time    |-> report.time + render.time,
                             renders |-> IF report.present
                                         THEN Append(report.renders, render)
                                         ELSE <<>>,
                             present |-> TRUE]],
                !.rafQueue = Append(@, FlushCallback)]

\* start()'s onRender(fiber, render), past the consumer's own options.onRender.
onRender(st, dom, f, render) ==
    LET got    == getOutline(dom, st.rectCache, f, render)
        report == st.reportData[render.name]
    IN  IF got.outline = NoOutline THEN [st EXCEPT !.rectCache = got.cache]
        ELSE [st EXCEPT
                !.rectCache = got.cache,
                !.scheduledOutlines = Append(@, got.outline),
                !.reportData =
                    IF render.name = NoName THEN @
                    ELSE [@ EXCEPT ![render.name] =
                            [count   |-> report.count + render.count,
                             time    |-> report.time + render.time,
                             renders |-> IF report.present
                                         THEN Append(report.renders, render)
                                         ELSE <<>>,
                             present |-> TRUE]],
                !.rafQueue = Append(@, FlushCallback)]

RECURSIVE onRenderAll(_, _, _)
onRenderAll(st, dom, emits) ==
    IF emits = <<>> THEN st
    ELSE onRenderAll(onRender(st, dom, Head(emits).fiber, Head(emits).render),
                     dom, Tail(emits))

CallStart == [cb |-> "onCommitStart", fiber |-> NoFiber, render |-> NoRender]

CallFinish == [cb |-> "onCommitFinish", fiber |-> NoFiber, render |-> NoRender]

CallRender(e) == [cb |-> "onRender", fiber |-> e.fiber, render |-> e.render]

Calls(emits) == [i \in 1..Len(emits) |-> CallRender(emits[i])]

\* An exception on the way through handleCommitFiberRoot: the at-th consumer
\* callback throws, or (walk) the tree walk or a diff pass throws before the
\* at-th callback is reached.
NoThrow == [at |-> 0, walk |-> FALSE]

Throws(n) ==
    {NoThrow} \cup {[at |-> k, walk |-> FALSE] : k \in 1..(n + 2)}
              \cup {[at |-> k, walk |-> TRUE] : k \in 2..(n + 2)}

\* handleCommitFiberRoot with the isPaused test left out.
handleCommitFiberRootWhilePaused(paused, emits, throw) ==
    [log   |-> <<CallStart>> \o Calls(emits) \o <<CallFinish>>,
     done  |-> emits,
     threw |-> FALSE]

\* handleCommitFiberRoot for a root whose walk yields emits: the callbacks
\* invoked, the Render events whose onRender ran to its end, and whether an
\* exception left the function.
handleCommitFiberRoot(paused, emits, throw) ==
    LET all     == <<CallStart>> \o Calls(emits) \o <<CallFinish>>
        invoked == IF throw.walk THEN throw.at - 1 ELSE throw.at
    IN  IF paused
        THEN [log |-> <<>>, done |-> <<>>, threw |-> FALSE]
        ELSE IF throw = NoThrow
        THEN [log |-> all, done |-> emits, threw |-> FALSE]
        ELSE [log   |-> SubSeq(all, 1, invoked),
              done  |-> SubSeq(emits, 1, IF throw.at - 2 < Len(emits)
                                         THEN throw.at - 2 ELSE Len(emits)),
              threw |-> TRUE]

\* onCommitFiberRoot without its try/catch: the exception reaches the host.
CommitOutcomeUncaught(threw) == IF threw THEN "raised" ELSE "returned"

\* ReactScanInternals.onCommitFiberRoot: try { ... } catch { console.error }
CommitOutcome(threw) == IF threw THEN "caught" ELSE "returned"

(***************************************************************************)
(* Outlines: merge, re-measure, paint and fade (web/outline).              *)
(***************************************************************************)
RemoveAt(q, i) == SubSeq(q, 1, i - 1) \o SubSeq(q, i + 1, Len(q))

\* Index of the first outline of a list with the key, 0 when there is none.
IndexOfKey(outlines, key) ==
    LET hits == {i \in 1..Len(outlines) : getOutlineKey(outlines[i].rect) = key}
    IN  IF hits = {} THEN 0 ELSE CHOOSE i \in hits : \A j \in hits : i <= j

\* mergeOutlines' loop with the renders of a later outline replacing those
\* of the outline already under its key.
RECURSIVE mergeLoopReplacing(_, _)
mergeLoopReplacing(mergedOutlines, outlines) ==
    IF outlines = <<>> THEN mergedOutlines
    ELSE LET outline == Head(outlines)
             i       == IndexOfKey(mergedOutlines, getOutlineKey(outline.rect))
         IN  mergeLoopReplacing(IF i = 0
                                THEN Append(mergedOutlines, outline)
                                ELSE [mergedOutlines EXCEPT ![i].renders = outline.renders],
                                Tail(outlines))

\* mergeOutlines' loop: mergedOutlines is the Map so far, in insertion order.
RECURSIVE mergeLoop(_, _)
mergeLoop(mergedOutlines, outlines) ==
    IF outlines = <<>> THEN mergedOutlines
    ELSE LET outline == Head(outlines)
             i       == IndexOfKey(mergedOutlines, getOutlineKey(outline.rect))
         IN  mergeLoop(IF i = 0
                       THEN Append(mergedOutlines, outline)
                       ELSE [mergedOutlines EXCEPT ![i].renders = @ \o outline.renders],
                       Tail(outlines))

mergeOutlines(outlines) == mergeLoop(<<>>, outlines)

\* getDomNode(outline): fiber.stateNode when it is an HTMLElement.
getDomNode(outline) == StateNode(outline.fiber)

\* recalcOutlines, first loop: the scheduled outlines from the last to the first.
RECURSIVE recalcScheduled(_, _, _, _)
recalcScheduled(dom, cache, outlines, i) ==
    IF i = 0 THEN [outlines |-> outlines, cache |-> cache]
    ELSE LET domNode == getDomNode(outlines[i])
             got     == getRect(dom, cache, domNode)
         IN  IF domNode = NoNode THEN recalcScheduled(dom, cache, outlines, i - 1)
             ELSE IF got.rect = NoRect
             THEN recalcScheduled(dom, got.cache, RemoveAt(outlines, i), i - 1)
             ELSE recalcScheduled(dom, got.cache,
                                  [outlines EXCEPT ![i].rect = got.rect], i - 1)

\* recalcOutlines, second loop: the active outlines from the last to the first.
RECURSIVE recalcActive(_, _, _, _)
recalcActive(dom, cache, actives, i) ==
    IF i = 0 THEN [outlines |-> actives, cache |-> cache]
    ELSE LET domNode == getDomNode(actives[i].outline)
             got     == getRect(dom, cache, domNode)
         IN  IF domNode = NoNode THEN recalcActive(dom, cache, actives, i - 1)
             ELSE IF got.rect = NoRect
             THEN recalcActive(dom, got.cache, RemoveAt(actives, i), i - 1)
             ELSE recalcActive(dom, got.cache,
                               [actives EXCEPT ![i].outline.rect = got.rect], i - 1)

\* recalcOutlines = throttle(..., DEFAULT_THROTTLE_TIME): the call is dropped
\* (throttled) when the last run is less than an interval old.
recalcOutlines(st, dom, throttled) ==
    IF throttled THEN st
    ELSE LET sched == recalcScheduled(dom, st.rectCache, st.scheduledOutlines,
                                      Len(st.scheduledOutlines))
             act   == recalcActive(dom, sched.cache, st.activeOutlines,
                                   Len(st.activeOutlines))
         IN  [st EXCEPT !.scheduledOutlines = sched.outlines,
                        !.activeOutlines = act.outlines,
                        !.rectCache = act.cache]

\* web/utils isOutlineUnstable: the outline gathered more than one render
\* and they are recent (within the reset window).
isOutlineUnstable(outline, recent) == Len(outline.renders) > 1 /\ recent

StableFrames == 5

UnstableFrames == 60

DefaultMaxRenders == 20

\* Math.round(start + t * (end - start)), t = Math.min(renderCount / maxRenders, 1)
ColorChannel(start, end, renderCount, maxRenders) ==
    LET \* t = tn / td with td > 0
        tn == IF maxRenders = 0 \/ (maxRenders > 0 /\ renderCount >= maxRenders) THEN 1
              ELSE IF maxRenders > 0 THEN renderCount ELSE 0 - renderCount
        td == IF maxRenders = 0 \/ (maxRenders > 0 /\ renderCount >= maxRenders) THEN 1
              ELSE IF maxRenders > 0 THEN maxRenders ELSE 0 - maxRenders
    IN  (2 * (start * td + tn * (end - start)) + td) \div (2 * td)

OutlineColor(renderCount, maxRendersOption) ==
    LET maxRenders == IF maxRendersOption = <<>> THEN DefaultMaxRenders
                      ELSE maxRendersOption[1]
    IN  [r |-> ColorChannel(115, 185, renderCount, maxRenders),
         g |-> ColorChannel(97, 49, renderCount, maxRenders),
         b |-> ColorChannel(230, 115, renderCount, maxRenders)]

\* Alphas are kept in 600ths: 0.8 is 480, 0.2 is 120.
AlphaOf(tenths) == tenths * 60

FadeCallback ==
    [kind |-> "fadeOutOutline", first |-> <<>>, previous |-> {}, id |-> 0, fiber |-> NoFiber]

\* options.onPaintStart?.(outline)
CallPaintStart(outline) ==
    [cb |-> "onPaintStart", fiber |-> outline.fiber, render |-> NoRender]

\* paintOutline asking for a frame of fadeOutOutline whether or not one is
\* already asked for.
paintOutlineAlwaysAsking(st, outline, recent) ==
    LET unstable    == isOutlineUnstable(outline, recent)
        totalFrames == IF unstable THEN UnstableFrames ELSE StableFrames
        alpha       == AlphaOf(8)
        key         == getOutlineKey(outline.rect)
        existing    == IndexOfKey([i \in 1..Len(st.activeOutlines) |->
                                       st.activeOutlines[i].outline], key)
        color       == OutlineColor(Len(outline.renders), st.options.maxRenders)
    IN  [st EXCEPT
           !.activeOutlines =
               IF existing # 0
               THEN [@ EXCEPT ![existing] =
                       [@ EXCEPT !.outline.renders = @ \o outline.renders,
                                 !.outline.rect = outline.rect,
                                 !.frame = 0,
                                 !.totalFrames = totalFrames,
                                 !.alpha = alpha,
                                 !.color = color]]
               ELSE Append(@, [outline     |-> outline,
                               alpha       |-> alpha,
                               frame       |-> 0,
                               totalFrames |-> totalFrames,
                               color       |-> color,
                               id          |-> st.nextId]),
           !.nextId = IF existing # 0 THEN @ ELSE @ + 1,
           !.callLog = Append(@, CallPaintStart(outline)),
           !.animationFrameId = TRUE,
           !.rafQueue = Append(@, FadeCallback)]

\* paintOutline(ctx, outline): merge into the active outline of the same key
\* or add one, and start the animation loop if it is not running.
paintOutline(st, outline, recent) ==
    LET unstable    == isOutlineUnstable(outline, recent)
        totalFrames == IF unstable THEN UnstableFrames ELSE StableFrames
        alpha       == AlphaOf(8)
        key         == getOutlineKey(outline.rect)
        existing    == IndexOfKey([i \in 1..Len(st.activeOutlines) |->
                                       st.activeOutlines[i].outline], key)
        color       == OutlineColor(Len(outline.renders), st.options.maxRenders)
    IN  [st EXCEPT
           !.activeOutlines =
               IF existing # 0
               THEN [@ EXCEPT ![existing] =
                       [@ EXCEPT !.outline.renders = @ \o outline.renders,
                                 !.outline.rect = outline.rect,
                                 !.frame = 0,
                                 !.totalFrames = totalFrames,
                                 !.alpha = alpha,
                                 !.color = color]]
               ELSE Append(@, [outline     |-> outline,
                               alpha       |-> alpha,
                               frame       |-> 0,
                               totalFrames |-> totalFrames,
                               color       |-> color,
                               id          |-> st.nextId]),
           !.nextId = IF existing # 0 THEN @ ELSE @ + 1,
           !.callLog = Append(@, CallPaintStart(outline)),
           !.animationFrameId = TRUE,
           !.rafQueue = IF st.animationFrameId THEN @ ELSE Append(@, FadeCallback)]

\* The map over mergedOutlines in flushOutlines' second frame: every outline
\* whose key is not in previousOutlines is painted, in order.  Each paint
\* has run, and left one state "painted", before the next one starts.
RECURSIVE paintAll(_, _, _, _)
paintAll(st, mergedOutlines, previousOutlines, recent) ==
    IF mergedOutlines = <<>> THEN st
    ELSE LET outline == Head(mergedOutlines)
             rest(painted) == paintAll(painted, Tail(mergedOutlines),
                                       previousOutlines, recent)
         IN  CHOOSE done \in
                 {rest(painted) :
                    painted \in {IF getOutlineKey(outline.rect) \in previousOutlines
                                  THEN st
                                  ELSE paintOutline(st, outline, outline.rect \in recent)}} :
                 TRUE

Phase2Callback(firstOutlines, previousOutlines) ==
    [kind |-> "flushOutlines2", first |-> firstOutlines,
     previous |-> previousOutlines, id |-> 0, fiber |-> NoFiber]

\* flushOutlines handing the queue to its frame callback without emptying it.
flushOutlinesKeepingQueue(st, previousOutlines) ==
    IF st.scheduledOutlines = <<>> THEN st
    ELSE [st EXCEPT !.rafQueue = Append(@, Phase2Callback(st.scheduledOutlines,
                                                          previousOutlines))]

\* flushOutlines(ctx, previousOutlines, ...): take the queue, ask for a frame.
flushOutlines(st, previousOutlines) ==
    IF st.scheduledOutlines = <<>> THEN st
    ELSE [st EXCEPT !.scheduledOutlines = <<>>,
                    !.rafQueue = Append(@, Phase2Callback(st.scheduledOutlines,
                                                          previousOutlines))]

\* flushOutlines' frame callback merging the phase-1 outlines alone: those
\* queued since are taken off the queue and left out.
flushSecondFrameFirstOnly(st, dom, firstOutlines, previousOutlines, throttled, recent) ==
    LET recalced       == recalcOutlines(st, dom, throttled)
        taken          == [recalced EXCEPT !.scheduledOutlines = <<>>]
        mergedOutlines == mergeOutlines(firstOutlines)
        painted        == paintAll(taken, mergedOutlines, previousOutlines, recent)
        allSkipped     == \A i \in 1..Len(mergedOutlines) :
                              getOutlineKey(mergedOutlines[i].rect) \in previousOutlines
    IN  IF allSkipped /\ painted.scheduledOutlines # <<>>
        THEN flushOutlines(painted, {})
        ELSE painted

\* The frame callback of flushOutlines and the async function it starts.
\* paintOutline's promise is settled by ActiveOutline.resolve, which nothing
\* calls, so what follows Promise.all runs only when nothing was painted.
flushSecondFrame(st, dom, firstOutlines, previousOutlines, throttled, recent) ==
    LET recalced       == recalcOutlines(st, dom, throttled)
        secondOutlines == recalced.scheduledOutlines
        taken          == [recalced EXCEPT !.scheduledOutlines = <<>>]
        mergedOutlines == mergeOutlines(firstOutlines \o secondOutlines)
        painted        == paintAll(taken, mergedOutlines, previousOutlines, recent)
        allSkipped     == \A i \in 1..Len(mergedOutlines) :
                              getOutlineKey(mergedOutlines[i].rect) \in previousOutlines
    IN  IF allSkipped /\ painted.scheduledOutlines # <<>>
        THEN flushOutlines(painted, {})
        ELSE painted

RemeasureCallback(id, f) ==
    [kind |-> "remeasure", first |-> <<>>, previous |-> {}, id |-> id, fiber |-> f]

\* fadeOutOutline's loop retiring an outline one tick late, once its frame
\* exceeds totalFrames + 1.
RECURSIVE fadeLoopLate(_, _, _)
fadeLoopLate(st, i, recent) ==
    IF i = 0 THEN st
    ELSE LET activeOutline == st.activeOutlines[i]
             unstable      == isOutlineUnstable(activeOutline.outline,
                                                activeOutline.outline.rect \in recent)
             alphaScalar   == IF unstable THEN AlphaOf(8) ELSE AlphaOf(2)
             alpha         == (alphaScalar * (activeOutline.totalFrames - activeOutline.frame))
                                  \div activeOutline.totalFrames
             frame         == activeOutline.frame + 1
             asked         == [st EXCEPT !.rafQueue =
                                   Append(@, RemeasureCallback(activeOutline.id,
                                                               activeOutline.outline.fiber))]
         IN  fadeLoopLate(IF frame > activeOutline.totalFrames + 1
                           THEN [asked EXCEPT !.activeOutlines = RemoveAt(@, i)]
                           ELSE [asked EXCEPT !.activeOutlines[i] =
                                    [@ EXCEPT !.alpha = alpha, !.frame = frame]],
                           i - 1, recent)

\* fadeOutOutline's loop retiring an outline one tick early, as soon as its
\* frame reaches totalFrames.
RECURSIVE fadeLoopEarly(_, _, _)
fadeLoopEarly(st, i, recent) ==
    IF i = 0 THEN st
    ELSE LET activeOutline == st.activeOutlines[i]
             unstable      == isOutlineUnstable(activeOutline.outline,
                                                activeOutline.outline.rect \in recent)
             alphaScalar   == IF unstable THEN AlphaOf(8) ELSE AlphaOf(2)
             alpha         == (alphaScalar * (activeOutline.totalFrames - activeOutline.frame))
                                  \div activeOutline.totalFrames
             frame         == activeOutline.frame + 1
             asked         == [st EXCEPT !.rafQueue =
                                   Append(@, RemeasureCallback(activeOutline.id,
                                                               activeOutline.outline.fiber))]
         IN  fadeLoopEarly(IF frame >= activeOutline.totalFrames
                           THEN [asked EXCEPT !.activeOutlines = RemoveAt(@, i)]
                           ELSE [asked EXCEPT !.activeOutlines[i] =
                                    [@ EXCEPT !.alpha = alpha, !.frame = frame]],
                           i - 1, recent)

\* fadeOutOutline's loop over the active outlines, from the last to the first.
RECURSIVE fadeLoop(_, _, _)
fadeLoop(st, i, recent) ==
    IF i = 0 THEN st
    ELSE LET activeOutline == st.activeOutlines[i]
             unstable      == isOutlineUnstable(activeOutline.outline,
                                                activeOutline.outline.rect \in recent)
             alphaScalar   == IF unstable THEN AlphaOf(8) ELSE AlphaOf(2)
             alpha         == (alphaScalar * (activeOutline.totalFrames - activeOutline.frame))
                                  \div activeOutline.totalFrames
             frame         == activeOutline.frame + 1
             asked         == [st EXCEPT !.rafQueue =
                                   Append(@, RemeasureCallback(activeOutline.id,
                                                               activeOutline.outline.fiber))]
         IN  fadeLoop(IF frame > activeOutline.totalFrames
                      THEN [asked EXCEPT !.activeOutlines = RemoveAt(@, i)]
                      ELSE [asked EXCEPT !.activeOutlines[i] =
                               [@ EXCEPT !.alpha = alpha, !.frame = frame]],
                      i - 1, recent)

\* fadeOutOutline asking for its next frame whether or not an outline is left.
fadeOutOutlinePolling(st, recent) ==
    LET faded == fadeLoop(st, Len(st.activeOutlines), recent)
    IN  [faded EXCEPT !.animationFrameId = TRUE,
                      !.rafQueue = Append(@, FadeCallback)]

\* fadeOutOutline(ctx)
fadeOutOutline(st, recent) ==
    LET faded == fadeLoop(st, Len(st.activeOutlines), recent)
    IN  IF faded.activeOutlines # <<>>
        THEN [faded EXCEPT !.animationFrameId = TRUE,
                           !.rafQueue = Append(@, FadeCallback)]
        ELSE [faded EXCEPT !.animationFrameId = FALSE]

\* The frame fadeOutOutline asks for per outline: measure its node again.
\* The outline is the object the callback closed over: it is written to
\* whether or not it is still in the active set.
remeasure(st, dom, id, f) ==
    LET hits    == {i \in 1..Len(st.activeOutlines) : st.activeOutlines[i].id = id}
        i       == CHOOSE j \in hits : TRUE
        domNode == StateNode(f)
        got     == getRect(dom, st.rectCache, domNode)
    IN  IF domNode = NoNode THEN st
        ELSE IF got.rect = NoRect \/ hits = {} THEN [st EXCEPT !.rectCache = got.cache]
        ELSE [st EXCEPT !.rectCache = got.cache,
                        !.activeOutlines[i].outline.rect = got.rect]

(***************************************************************************)
(* The engine as a state machine.                                          *)
(***************************************************************************)
MaxEvents == 2

EngineState ==
    [options           |-> options,
     scheduledOutlines |-> scheduledOutlines,
     activeOutlines    |-> activeOutlines,
     reportData        |-> reportData,
     animationFrameId  |-> animationFrameId,
     rafQueue          |-> rafQueue,
     rectCache         |-> rectCache,
     nextId            |-> nextId,
     callLog           |-> callLog]

Becomes(st) ==
    /\ options' = st.options
    /\ scheduledOutlines' = st.scheduledOutlines
    /\ activeOutlines' = st.activeOutlines
    /\ reportData' = st.reportData
    /\ animationFrameId' = st.animationFrameId
    /\ rafQueue' = st.rafQueue
    /\ rectCache' = st.rectCache
    /\ nextId' = st.nextId

NoCalls ==
    /\ callLog' = <<>>
    /\ outcome' = "none"

\* The engine after a frame callback, with the consumer callbacks it invoked.
\* The callback runs once: its result is one value, "after".
Runs(st) ==
    \E after \in {st} :
        /\ Becomes(after)
        /\ callLog' = after.callLog

InitEngine ==
    /\ inited = FALSE
    /\ options = [maxRenders |-> <<>>]
    /\ isPaused = FALSE
    /\ componentAllowList = NullAllowList
    /\ registrations = [t \in ComponentTypes |-> NoOptions]
    /\ scheduledOutlines = <<>>
    /\ activeOutlines = <<>>
    /\ reportData = [n \in ComponentTypes |-> NoReport]
    /\ animationFrameId = FALSE
    /\ rafQueue = <<>>
    /\ frameBatch = <<>>
    /\ rectCache = [n \in DomNodes |-> NoRect]
    /\ callLog = <<>>
    /\ outcome = "none"
    /\ nEvents = 0
    /\ nextId = 1

Init ==
    /\ input = <<>>
    /\ output = <<>>
    /\ InitEngine

\* setOptions(options): { ...ReactScanInternals.options, ...options }
setOptions(old, given) ==
    [maxRenders |-> IF given.maxRenders = <<>> THEN old.maxRenders ELSE given.maxRenders]

GivenOptions == [enabled : BOOLEAN, includeChildren : BOOLEAN, maxRenders : {<<>>}]

\* scan(options)
Scan ==
    \E given \in {o \in GivenOptions : ~o.includeChildren} :
        /\ frameBatch = <<>>
        /\ options' = setOptions(options, given)
        /\ inited' = (inited \/ ~(isInIframe \/ isProd \/ ~given.enabled))
        /\ NoCalls
        /\ UNCHANGED <<fnVars, isPaused, componentAllowList, registrations, scheduledOutlines,
                       activeOutlines, reportData, animationFrameId, rafQueue, frameBatch,
                       rectCache, nEvents, nextId>>

\* The allow-list after withScan(component, options) got past its early
\* return: the table is created when missing, and the component is set in
\* the table the function read before creating it.
withScanAllowList(allowList, component, given) ==
    IF ~allowList.created
    THEN [allowList EXCEPT !.created = TRUE]
    ELSE [allowList EXCEPT !.table[component] =
             [registered |-> TRUE, includeChildren |-> given.includeChildren]]

\* withScan(component, options)
WithScan ==
    \E component \in ComponentTypes, given \in GivenOptions :
        /\ frameBatch = <<>>
        /\ options' = setOptions(options, given)
        /\ IF isInIframe \/ isProd \/ ~given.enabled
           THEN UNCHANGED <<componentAllowList, registrations, inited>>
           ELSE /\ componentAllowList' =
                       withScanAllowList(componentAllowList, component, given)
                /\ registrations' = [registrations EXCEPT ![component] =
                       [registered |-> TRUE, includeChildren |-> given.includeChildren]]
                /\ inited' = TRUE
        /\ NoCalls
        /\ UNCHANGED <<fnVars, isPaused, scheduledOutlines,
                       activeOutlines, reportData, animationFrameId, rafQueue, frameBatch,
                       rectCache, nEvents, nextId>>

\* The toolbar's pause switch.
SetPaused ==
    /\ frameBatch = <<>>
    /\ isPaused' = ~isPaused
    /\ NoCalls
    /\ UNCHANGED <<fnVars, inited, options, componentAllowList, registrations, scheduledOutlines,
                   activeOutlines, reportData, animationFrameId, rafQueue, frameBatch,
                   rectCache, nEvents, nextId>>

PropsX(v) == [NoProps EXCEPT !.x = v]

ValueOf(id) == CHOOSE v \in Values : v.id = id

FiberInput(f, rendered, prevValue, nextValue, deps) ==
    [id |-> f, type |-> FiberType(f), rendered |-> rendered,
     prevProps |-> PropsX(prevValue), nextProps |-> PropsX(nextValue), deps |-> deps,
     name |-> IF f \in ComponentFibers THEN FiberType(f) ELSE NoName,
     time |-> f, forget |-> FALSE]

Unrendered(f) == FiberInput(f, FALSE, Absent, Absent, <<>>)

\* What a commit can bring for a fiber: it did not render, or it rendered
\* with identical props, with a changed or re-allocated prop, or with
\* identical props and a changed context (A the first three but the
\* re-allocated prop, B the last two).
FiberInputs(f) ==
    IF f \notin ComponentFibers THEN {FiberInput(f, TRUE, Absent, Absent, <<>>)}
    ELSE IF f = 1
    THEN {Unrendered(f),
          FiberInput(f, TRUE, ValueOf(1), ValueOf(1), <<>>),
          FiberInput(f, TRUE, ValueOf(1), ValueOf(2), <<>>)}
    ELSE {Unrendered(f),
          FiberInput(f, TRUE, ValueOf(3), ValueOf(4), <<>>),
          FiberInput(f, TRUE, ValueOf(1), ValueOf(1),
                     <<[prev |-> ValueOf(3), next |-> ValueOf(5)]>>)}

\* The same, cut down to one way of rendering per fiber: A with identical
\* props, B with re-allocated props, neither reading a context.
LeanFiberInputs(f) ==
    IF f \notin ComponentFibers THEN {FiberInput(f, TRUE, Absent, Absent, <<>>)}
    ELSE IF f = 1
    THEN {Unrendered(f), FiberInput(f, TRUE, ValueOf(1), ValueOf(1), <<>>)}
    ELSE {Unrendered(f), FiberInput(f, TRUE, ValueOf(3), ValueOf(4), <<>>)}

\* root.memoizedUpdaters, in insertion order.
Updaters == {<<>>, <<2>>}

CommitOf(f0, f1, f2, u) ==
    [fibers |-> [f \in {0, 1, 2} |-> IF f = 1 THEN f1 ELSE IF f = 2 THEN f2 ELSE f0],
     updaters |-> u]

Commits ==
    {CommitOf(f0, f1, f2, u) :
        f0 \in FiberInputs(0), f1 \in FiberInputs(1), f2 \in FiberInputs(2),
        u \in Updaters}

\* Commits without updaters, in which a component rendered.
LeanCommits ==
    {CommitOf(f0, f1, f2, <<>>) :
        f0 \in LeanFiberInputs(0), f1 \in LeanFiberInputs(1), f2 \in LeanFiberInputs(2)}
    \ {CommitOf(FiberInput(0, TRUE, Absent, Absent, <<>>), Unrendered(1), Unrendered(2), <<>>)}

\* The document as an operation finds it: every node at one of the
\* rectangles or without one (hidden, off-screen or empty). Nodes move, hide
\* and show between operations; an operation reads a node's rectangle only
\* past a stale cache entry, so when it reads none or every entry is fresh
\* one document stands for all.
Layouts(reads) ==
    IF ~reads \/ \A node \in DomNodes : rectCache[node] # NoRect THEN {rectCache}
    ELSE [DomNodes -> Rects \cup {NoRect}]

RenderCalls(log) == Cardinality({i \in 1..Len(log) : log[i].cb = "onRender"})

\* ReactScanInternals.onCommitFiberRoot(rendererID, root), as the host calls
\* it, with one of the commits and one of the exceptions.
OnCommitFiberRoot(commits, throws) ==
    /\ inited
    /\ frameBatch = <<>>
    /\ \E commit \in commits :
         LET emits == CommitWalk(commit, componentAllowList)
         IN  \E throw \in throws \cap Throws(Len(emits)) :
               LET handled == handleCommitFiberRoot(isPaused, emits, throw)
               IN  /\ nEvents + RenderCalls(handled.log) <= MaxEvents
                   /\ callLog' = handled.log
                   /\ outcome' = CommitOutcome(handled.threw)
                   /\ nEvents' = nEvents + RenderCalls(handled.log)
                   /\ \E dom \in Layouts(handled.done # <<>>) :
                         Becomes(onRenderAll(EngineState, dom, handled.done))
    /\ UNCHANGED <<fnVars, inited, isPaused, componentAllowList, registrations, frameBatch>>

\* Time passes: a rectCache entry grows older than DEFAULT_THROTTLE_TIME.
CacheExpires ==
    \E node \in DomNodes :
        /\ frameBatch = <<>>
        /\ rectCache[node] # NoRect
        /\ rectCache' = [rectCache EXCEPT ![node] = NoRect]
        /\ NoCalls
        /\ UNCHANGED <<fnVars, inited, options, isPaused, componentAllowList, registrations,
                       scheduledOutlines, activeOutlines, reportData, animationFrameId,
                       rafQueue, frameBatch, nEvents, nextId>>

\* The browser runs the callbacks of a frame in the order they were asked
\* for; those asked for meanwhile wait for the next frame.
Batch == IF frameBatch = <<>> THEN rafQueue ELSE frameBatch

Waiting == IF frameBatch = <<>> THEN <<>> ELSE rafQueue

Running == [EngineState EXCEPT !.rafQueue = Waiting, !.callLog = <<>>]

FrameStep(kind) ==
    /\ Batch # <<>>
    /\ Head(Batch).kind = kind
    /\ frameBatch' = Tail(Batch)
    /\ outcome' = "none"
    /\ UNCHANGED <<fnVars, inited, isPaused, componentAllowList, registrations, nEvents>>

\* requestAnimationFrame(() => flushOutlines(ctx, new Map(), ...))
FlushOutlines ==
    /\ FrameStep("flushOutlines")
    /\ Runs(flushOutlines(Running, Head(Batch).previous))

\* The frame flushOutlines asked for.  The clock decides whether
\* recalcOutlines is throttled and the rects whose outlines
\* isOutlineUnstable finds recent.
FlushSecondFrame ==
    /\ FrameStep("flushOutlines2")
    /\ \E throttled \in BOOLEAN, recent \in SUBSET Rects, dom \in Layouts(TRUE) :
         Runs(flushSecondFrame(Running, dom, Head(Batch).first,
                               Head(Batch).previous, throttled, recent))

\* The rects of the active outlines isOutlineUnstable looks into.
RepeatedRects ==
    {activeOutlines[i].outline.rect :
        i \in {j \in 1..Len(activeOutlines) : Len(activeOutlines[j].outline.renders) > 1}}

\* requestAnimationFrame(() => fadeOutOutline(ctx))
FadeOutOutline ==
    /\ FrameStep("fadeOutOutline")
    /\ \E recent \in SUBSET RepeatedRects :
         Runs(fadeOutOutline(Running, recent))

\* The frame fadeOutOutline asks for per outline.
Remeasure ==
    /\ FrameStep("remeasure")
    /\ \E dom \in Layouts(StateNode(Head(Batch).fiber) # NoNode) :
         Runs(remeasure(Running, dom, Head(Batch).id, Head(Batch).fiber))

Commit == OnCommitFiberRoot(LeanCommits, {NoThrow})

Next ==
    \/ Scan
    \/ Commit
    \/ CacheExpires
    \/ FlushOutlines
    \/ FlushSecondFrame
    \/ FadeOutOutline
    \/ Remeasure

Spec == Init /\ [][Next]_vars

(***************************************************************************)
(* SpecLive: the engine with the browser running every frame asked for.    *)
(***************************************************************************)
SpecLive ==
    /\ Init
    /\ [][Next]_vars
    /\ WF_vars(FlushOutlines)
    /\ WF_vars(FlushSecondFrame)
    /\ WF_vars(FadeOutOutline)
    /\ WF_vars(Remeasure)

(***************************************************************************)
(* SpecPause: the engine with its pause switch.                            *)
(***************************************************************************)
\* The commits in which B alone rendered.
PauseCommits == {commit \in LeanCommits : ~commit.fibers[1].rendered}

CommitB == OnCommitFiberRoot(PauseCommits, {NoThrow})

NextPause ==
    \/ Scan
    \/ SetPaused
    \/ CommitB
    \/ CacheExpires
    \/ FlushOutlines
    \/ FlushSecondFrame
    \/ FadeOutOutline
    \/ Remeasure

SpecPause == Init /\ [][NextPause]_vars

(***************************************************************************)
(* SpecCommit: the commit handler on its own, with every kind of fiber a   *)
(* commit can bring and every exception on the way.                        *)
(***************************************************************************)
CommitAny == OnCommitFiberRoot(Commits, Throws(MaxEvents))

NextCommit ==
    \/ Scan
    \/ SetPaused
    \/ CommitAny

SpecCommit == Init /\ [][NextCommit]_vars

(***************************************************************************)
(* SpecAllow: withScan registrations and the commits handled under them.   *)
(***************************************************************************)
CommitWhole == OnCommitFiberRoot(Commits, {NoThrow})

NextAllow ==
    \/ WithScan
    \/ CommitWhole

SpecAllow == Init /\ [][NextAllow]_vars

(***************************************************************************)
(* SpecDiff: the two diff passes applied to one fiber at a time.           *)
(***************************************************************************)
MaxDeps == 1

ChildrenValues == {Absent} \cup {v \in Values : v.id \in {3, 7}}
XValues == {Absent} \cup Values
YValues == {Absent} \cup {v \in Values : v.id \in {1, 3, 4}}

DiffProps == [children : ChildrenValues, x : XValues, y : YValues]

RECURSIVE SeqsUpTo(_, _)
SeqsUpTo(S, n) ==
    IF n = 0 THEN {<<>>}
    ELSE LET shorter == SeqsUpTo(S, n - 1)
         IN  shorter \cup {Append(q, e) : q \in {r \in shorter : Len(r) = n - 1}, e \in S}

DiffDeps == SeqsUpTo([prev : Values, next : Values], MaxDeps)

DiffFibers ==
    {[prevProps |-> p, nextProps |-> n, deps |-> <<>>,
      name |-> "A", time |-> 0, forget |-> FALSE] : p \in DiffProps, n \in DiffProps}
    \cup
    {[prevProps |-> NoProps, nextProps |-> NoProps, deps |-> d,
      name |-> "A", time |-> 0, forget |-> FALSE] : d \in DiffDeps}

NoOutput == [props |-> NoRender, context |-> NoRender]

InitDiff ==
    /\ input \in DiffFibers
    /\ output = NoOutput
    /\ InitEngine

Diff ==
    /\ output = NoOutput
    /\ output' = [props   |-> getPropsRender(input),
                  context |-> getContextRender(input)]
    /\ UNCHANGED <<input, engineVars>>

NextDiff == Diff

SpecDiff == InitDiff /\ [][NextDiff]_vars

(***************************************************************************)
(* SpecMerge: mergeOutlines applied to one list of pending outlines.       *)
(***************************************************************************)
MaxOutlines == 3

MergeRects == Rects \cup {[top |-> 40, left |-> 0, width |-> 10, height |-> 10]}

\* The n-th render of a list: renders differ in their time.
MergeRender(n) ==
    [type |-> "props", count |-> 1, trigger |-> FALSE, changes |-> <<>>,
     name |-> "A", time |-> n, forget |-> FALSE]

\* The i-th outline of a list, with one render or two.
MergeOutline(i, f, rect, two) ==
    [fiber |-> f, rect |-> rect,
     renders |-> IF two THEN <<MergeRender(2 * i - 1), MergeRender(2 * i)>>
                 ELSE <<MergeRender(2 * i - 1)>>]

\* Lists of up to MaxOutlines outlines; the fibers alternate down the list.
MergeInputs ==
    UNION {{[i \in 1..n |-> MergeOutline(i, 1 + (i % 2), c[i][1], c[i][2])] :
               c \in [1..n -> MergeRects \X BOOLEAN]} :
           n \in 0..MaxOutlines}

NoMerge == [done |-> FALSE, outlines |-> <<>>]

InitMerge ==
    /\ input \in MergeInputs
    /\ output = NoMerge
    /\ InitEngine

Merge ==
    /\ output = NoMerge
    /\ output' = [done |-> TRUE, outlines |-> mergeOutlines(input)]
    /\ UNCHANGED <<input, engineVars>>

NextMerge == Merge

SpecMerge == InitMerge /\ [][NextMerge]_vars

(***************************************************************************)
(* SpecPaint: paintOutline applied to one pending outline, with none or    *)
(* one outline already active.                                             *)
(***************************************************************************)
MaxPainted == 25

MaxHeld == 2

\* options.maxRenders as configured: left out, or a number.
MaxRendersGiven == {<<>>, <<-1>>, <<0>>, <<1>>, <<2>>, <<20>>}

PaintRenders(n) == [i \in 1..n |-> MergeRender(i)]

\* The engine after an outline of k renders was painted at the first
\* rectangle (k = 0: nothing painted yet).
PaintState(maxRenders, k) ==
    LET rect   == CHOOSE r \in Rects : r.top = 0
        before == [options           |-> [maxRenders |-> maxRenders],
                   scheduledOutlines |-> <<>>,
                   activeOutlines    |-> <<>>,
                   reportData        |-> [n \in ComponentTypes |-> NoReport],
                   animationFrameId  |-> FALSE,
                   rafQueue          |-> <<>>,
                   rectCache         |-> [n \in DomNodes |-> rect],
                   nextId            |-> 1,
                   callLog           |-> <<>>]
    IN  IF k = 0 THEN before
        ELSE [paintOutline(before, [fiber |-> 1, rect |-> rect,
                                    renders |-> PaintRenders(k)], FALSE)
                  EXCEPT !.callLog = <<>>]

PaintInputs ==
    {[st      |-> PaintState(maxRenders, k),
      outline |-> [fiber |-> 2, rect |-> rect, renders |-> PaintRenders(n)],
      recent  |-> recent] :
        maxRenders \in MaxRendersGiven, k \in 0..MaxHeld, rect \in Rects,
        n \in 1..MaxPainted, recent \in BOOLEAN}

NoPaint == [done |-> FALSE, st |-> <<>>]

InitPaint ==
    /\ input \in PaintInputs
    /\ output = NoPaint
    /\ InitEngine

Paint ==
    /\ output = NoPaint
    /\ output' = [done |-> TRUE,
                  st   |-> paintOutline(input.st, input.outline, input.recent)]
    /\ UNCHANGED <<input, engineVars>>

NextPaint == Paint

SpecPaint == InitPaint /\ [][NextPaint]_vars

(***************************************************************************)
(* SpecLabel: getLabelText applied to one list of renders.  A string is    *)
(* the sequence of its UTF-16 code units, which is what length and slice   *)
(* count; the fire emoji is two of them, a surrogate pair.                 *)
(***************************************************************************)
MaxLabelRenders == 2

\* String(count)
RECURSIVE Digits(_)
Digits(n) ==
    LET digit == SubSeq(<<"0", "1", "2", "3", "4", "5", "6", "7", "8", "9">>,
                        (n % 10) + 1, (n % 10) + 1)
    IN  IF n < 10 THEN digit ELSE Digits(n \div 10) \o digit

\* name.trim(): the name without its leading and trailing blanks.
RECURSIVE trim(_)
trim(name) ==
    IF name = <<>> THEN name
    ELSE IF Head(name) = " " THEN trim(Tail(name))
    ELSE IF name[Len(name)] = " " THEN trim(SubSeq(name, 1, Len(name) - 1))
    ELSE name

NullName == <<"null">>

IndexOfName(components, name) ==
    LET hits == {i \in 1..Len(components) : components[i].name = name}
    IN  IF hits = {} THEN 0 ELSE CHOOSE i \in hits : TRUE

\* getLabelText's first loop: the Map from name to the summed count and the
\* or-ed flags, in insertion order.
RECURSIVE labelComponents(_, _)
labelComponents(components, renders) ==
    IF renders = <<>> THEN components
    ELSE LET render == Head(renders)
             i      == IndexOfName(components, render.name)
         IN  labelComponents(
                 IF render.name = NullName \/ trim(render.name) = <<>> THEN components
                 ELSE IF i = 0
                 THEN Append(components,
                             [name |-> render.name, count |-> render.count,
                              trigger |-> render.trigger, forget |-> render.forget])
                 ELSE [components EXCEPT
                          ![i].count = @ + render.count,
                          ![i].trigger = @ \/ render.trigger,
                          ![i].forget = @ \/ render.forget],
                 Tail(renders))

\* Array.prototype.sort(([, a], [, b]) => b.count - a.count): stable, the
\* greater count first.
RECURSIVE sortComponents(_, _)
sortComponents(sorted, components) ==
    IF components = <<>> THEN sorted
    ELSE LET c      == Head(components)
             before == {i \in 1..Len(sorted) : sorted[i].count >= c.count}
             at     == IF before = {} THEN 0
                       ELSE CHOOSE i \in before : \A j \in before : j <= i
         IN  sortComponents(SubSeq(sorted, 1, at) \o <<c>>
                                \o SubSeq(sorted, at + 1, Len(sorted)),
                            Tail(components))

\* The text of one component: the name, its count when above 1, and the
\* marks of a trigger and of a compiled (forget) component, for env 'dom'.
labelPart(c) ==
    LET counted   == IF c.count > 1 THEN c.name \o <<" ", "times">> \o Digits(c.count)
                     ELSE c.name
        triggered == IF c.trigger THEN <<"fire-hi", "fire-lo", " ">> \o counted
                     ELSE counted
    IN  IF c.forget THEN triggered \o <<" ", "sparkles">> ELSE triggered

\* parts.join(' ')
RECURSIVE joinParts(_)
joinParts(components) ==
    IF components = <<>> THEN <<>>
    ELSE IF Len(components) = 1 THEN labelPart(components[1])
    ELSE labelPart(components[1]) \o <<" ">> \o joinParts(Tail(components))

labelJoined(renders) == joinParts(sortComponents(<<>>, labelComponents(<<>>, renders)))

\* null: getLabelText returns it for the empty text and never returns "".
NoLabel == <<>>

\* The end of getLabelText cutting at 21 code units instead of 20.
truncateLabelLate(labelText) ==
    IF Len(labelText) = 0 THEN NoLabel
    ELSE IF Len(labelText) > 20 THEN SubSeq(labelText, 1, 21) \o <<"ellipsis">>
    ELSE labelText

\* if (!labelText.length) return null; past 20 code units, slice(0, 20)
\* and the ellipsis.
truncateLabel(labelText) ==
    IF Len(labelText) = 0 THEN NoLabel
    ELSE IF Len(labelText) > 20 THEN SubSeq(labelText, 1, 20) \o <<"ellipsis">>
    ELSE labelText

\* getLabelText(renders, 'dom')
getLabelText(renders) == truncateLabel(labelJoined(renders))

\* Names a Render can carry: none, blank, short, and one of 18 code units.
LabelNames ==
    {NullName, <<" ">>, <<"A", "b">>,
     <<"L", "o", "n", "g", "C", "o", "m", "p", "o", "n", "e", "n", "t", "N", "a", "m", "e", "s">>}

LabelRenders ==
    {[type |-> "props", count |-> 1, trigger |-> trigger, changes |-> <<>>,
      name |-> name, time |-> 0, forget |-> forget] :
        name \in LabelNames, trigger \in BOOLEAN, forget \in BOOLEAN}

LabelInputs == SeqsUpTo(LabelRenders, MaxLabelRenders)

NoText == [done |-> FALSE, text |-> NoLabel]

InitLabel ==
    /\ input \in LabelInputs
    /\ output = NoText
    /\ InitEngine

Label ==
    /\ output = NoText
    /\ output' = [done |-> TRUE, text |-> getLabelText(input)]
    /\ UNCHANGED <<input, engineVars>>

NextLabel == Label

SpecLabel == InitLabel /\ [][NextLabel]_vars

(***************************************************************************)
(* The commit handler (SpecCommit).                                        *)
(***************************************************************************)
\* C1: for every commit that is processed, the consumer callbacks run in
\* strict order, onCommitStart once, then the onRender calls, then
\* onCommitFinish once, also when a callback or the walk throws.
CallbacksInOrder ==
    callLog # <<>> =>
        /\ Len(callLog) >= 2
        /\ callLog[1].cb = "onCommitStart"
        /\ callLog[Len(callLog)].cb = "onCommitFinish"
        /\ \A i \in 2..(Len(callLog) - 1) : callLog[i].cb = "onRender"

\* C2: onCommitFiberRoot never lets an exception reach the host: whatever
\* the walk, a diff pass or a consumer callback throws is caught, and the
\* handler returns.
HandlerNeverRaises == outcome # "raised"

\* A callback threw after an onRender had run, and the handler caught it.
CaughtAfterRender ==
    /\ outcome = "caught"
    /\ \E i \in 1..Len(callLog) : callLog[i].cb = "onRender"

\* C6: a rendered, nameable node whose props are identity-equal key by key
\* (no Change from the props diff) gets no Render of kind props.
NoPropsRenderWithoutChange ==
    \A i \in 1..Len(callLog) :
        (callLog[i].cb = "onRender" /\ callLog[i].render.type = "props")
            => callLog[i].render.changes # <<>>

(***************************************************************************)
(* The allow-list (SpecAllow).                                             *)
(***************************************************************************)
Ancestors(f) == IF f = 2 THEN {1, 0} ELSE IF f = 1 THEN {0} ELSE {}

\* C4: with an allow-list configured, a node is emitted to onRender only if
\* its type is registered or an ancestor is registered with includeChildren.
OnlyAllowedAreEmitted ==
    \A i \in 1..Len(callLog) :
        (callLog[i].cb = "onRender" /\ componentAllowList.created)
            => \/ AllowListHas(componentAllowList, FiberType(callLog[i].fiber))
               \/ \E a \in Ancestors(callLog[i].fiber) :
                      AllowListIncludesChildren(componentAllowList, FiberType(a))

\* C5: every component registered by a withScan call, the first one
\* included, is in the allow-list with the options it was registered with.
RegisteredAreLookedUp ==
    \A t \in ComponentTypes :
        registrations[t].registered
            => /\ componentAllowList.created
               /\ componentAllowList.table[t] = registrations[t]

(***************************************************************************)
(* The diff passes (SpecDiff).                                             *)
(***************************************************************************)
ChangesOf(render) == IF render = NoRender THEN {}
                     ELSE {render.changes[i] : i \in 1..Len(render.changes)}

RecordedChanges == ChangesOf(output.props) \cup ChangesOf(output.context)

\* C7: neither diff records a Change for a pair of identity-equal values.
NoChangeBetweenIdenticalValues ==
    \A change \in RecordedChanges : ~ObjectIs(change.prevValue, change.nextValue)

IsComposite(v) == v.typeof \in {"object", "function"}

\* C8: a recorded Change is unstable exactly when both values are of a
\* composite type and serialize to the same text; a Change between two
\* primitives is never unstable.
UnstableIffReallocated ==
    \A change \in RecordedChanges :
        change.unstable <=> /\ IsComposite(change.prevValue)
                            /\ IsComposite(change.nextValue)
                            /\ change.prevValue.text = change.nextValue.text

\* The props diff met a re-allocated object and two primitives of the same
\* text: the first Change is unstable, the second is not.
ReallocatedAndPrimitiveChange ==
    /\ \E change \in ChangesOf(output.props) :
           change.unstable /\ change.prevValue.typeof = "object"
    /\ \E change \in ChangesOf(output.props) :
           /\ ~change.unstable
           /\ change.prevValue.typeof = "number"
           /\ change.nextValue.typeof = "string"
           /\ change.prevValue.text = change.nextValue.text

(***************************************************************************)
(* mergeOutlines (SpecMerge).                                              *)
(***************************************************************************)
RECURSIVE RendersUnder(_, _)
RendersUnder(outlines, key) ==
    IF outlines = <<>> THEN <<>>
    ELSE (IF getOutlineKey(Head(outlines).rect) = key THEN Head(outlines).renders ELSE <<>>)
         \o RendersUnder(Tail(outlines), key)

KeysOf(outlines) == {getOutlineKey(outlines[i].rect) : i \in 1..Len(outlines)}

\* C9: mergeOutlines gives exactly one outline per region key of its input,
\* and that outline's renders are the renders of the input outlines of that
\* key, concatenated in input order: no render is dropped.
MergeKeepsEveryRender ==
    output.done =>
        /\ KeysOf(output.outlines) = KeysOf(input)
        /\ \A i, j \in 1..Len(output.outlines) :
               getOutlineKey(output.outlines[i].rect) = getOutlineKey(output.outlines[j].rect)
                   => i = j
        /\ \A i \in 1..Len(output.outlines) :
               output.outlines[i].renders =
                   RendersUnder(input, getOutlineKey(output.outlines[i].rect))

\* Three outlines under two keys were merged into two: one of them took the
\* renders of two input outlines.
MergedTwoUnderOneKey ==
    /\ output.done
    /\ Len(input) = 3
    /\ Len(output.outlines) = 2

(***************************************************************************)
(* The outline lifecycle (Spec).                                           *)
(***************************************************************************)
AllKeys == {getOutlineKey(rect) : rect \in Rects}

EventsUnder(outlines, key) ==
    Cardinality({i \in 1..Len(outlines) : getOutlineKey(outlines[i].rect) = key})

ActiveUnder(actives, key) ==
    {i \in 1..Len(actives) : getOutlineKey(actives[i].outline.rect) = key}

\* The number of renders the first active outline under a key holds, 0 when
\* there is none.
HeldUnder(actives, key) ==
    LET hits == ActiveUnder(actives, key)
    IN  IF hits = {} THEN 0
        ELSE Len(actives[CHOOSE i \in hits : \A j \in hits : i <= j].outline.renders)

ActiveIds(actives) == {actives[i].id : i \in 1..Len(actives)}

ActiveById(actives, id) ==
    actives[CHOOSE i \in 1..Len(actives) : actives[i].id = id]

\* C10 (as stated): an ActiveOutline's frame never decreases while it is in
\* the active set, and it leaves the set once, by the tick at which frame
\* exceeds totalFrames, and in no other way.
FrameOnlyRisesUntilFaded ==
    [][/\ \A id \in ActiveIds(activeOutlines) :
            LET before == ActiveById(activeOutlines, id)
            IN  IF id \in ActiveIds(activeOutlines')
                THEN ActiveById(activeOutlines', id).frame >= before.frame
                ELSE FadeOutOutline /\ before.frame + 1 > before.totalFrames
       /\ \A id \in ActiveIds(activeOutlines') \ ActiveIds(activeOutlines) :
            id >= nextId]_vars

\* C10 (amended): every tick raises an ActiveOutline's frame by exactly one
\* and retires it exactly when the raised frame exceeds totalFrames; apart
\* from ticks, frame changes only when a paint under the outline's key adds
\* renders to it and restarts it at 0; and an outline leaves the active set
\* once, by that tick or, if its fiber's stateNode is a DOM node, by the
\* recalcOutlines of a flush.
FrameRisesUntilFadedOrRepainted ==
    [][/\ \A id \in ActiveIds(activeOutlines) :
            LET before == ActiveById(activeOutlines, id)
                after  == ActiveById(activeOutlines', id)
            IN  IF FadeOutOutline
                THEN IF before.frame + 1 > before.totalFrames
                     THEN id \notin ActiveIds(activeOutlines')
                     ELSE /\ id \in ActiveIds(activeOutlines')
                          /\ after.frame = before.frame + 1
                ELSE IF id \in ActiveIds(activeOutlines')
                THEN \/ after.frame = before.frame
                     \/ /\ FlushSecondFrame
                        /\ after.frame = 0
                        /\ Len(after.outline.renders) > Len(before.outline.renders)
                ELSE FlushSecondFrame /\ getDomNode(before.outline) # NoNode
       /\ \A id \in ActiveIds(activeOutlines') \ ActiveIds(activeOutlines) :
            id >= nextId
       /\ \A i, j \in 1..Len(activeOutlines) :
            activeOutlines[i].id = activeOutlines[j].id => i = j]_vars

\* The one outline there ever was, of component A, has faded away: the tick
\* retired it.
FadedAway ==
    /\ nextId = 2
    /\ activeOutlines = <<>>
    /\ reportData["A"].present
    /\ ~reportData["B"].present

(***************************************************************************)
(* The paint callbacks (Spec).                                             *)
(***************************************************************************)
PaintCalls(log, cb, f) == {i \in 1..Len(log) : log[i].cb = cb /\ log[i].fiber = f}

\* C11: onPaintStart(outline) is invoked when an outline is painted, before
\* the animator draws it, and onPaintFinish(outline) is invoked when its fade
\* completes: the tick that retires an ActiveOutline invokes onPaintFinish
\* for its outline.
PaintStartsAndFinishes ==
    [][/\ FlushSecondFrame =>
            \A i \in 1..Len(activeOutlines') :
                activeOutlines'[i].frame = 0 /\ activeOutlines'[i].id >= nextId
                    => PaintCalls(callLog', "onPaintStart",
                                  activeOutlines'[i].outline.fiber) # {}
       /\ FadeOutOutline =>
            \A id \in ActiveIds(activeOutlines) \ ActiveIds(activeOutlines') :
                PaintCalls(callLog', "onPaintFinish",
                           ActiveById(activeOutlines, id).outline.fiber) # {}]_vars

(***************************************************************************)
(* The report (Spec).                                                      *)
(***************************************************************************)
RECURSIVE SumOf(_, _)
SumOf(renders, field) ==
    IF renders = <<>> THEN 0
    ELSE Head(renders)[field] + SumOf(Tail(renders), field)

\* C12: the report entry of every component name holds every Render event
\* delivered to onRender under that name: its renders list has them all, its
\* count and time are the sums of theirs, and together the entries account
\* for every event delivered.
ReportHoldsEveryRender ==
    /\ \A n \in ComponentTypes :
           /\ reportData[n].count = SumOf(reportData[n].renders, "count")
           /\ reportData[n].time = SumOf(reportData[n].renders, "time")
           /\ \A i \in 1..Len(reportData[n].renders) : reportData[n].renders[i].name = n
    /\ reportData["A"].count + reportData["B"].count = nEvents

(***************************************************************************)
(* Pausing (SpecPause).                                                    *)
(***************************************************************************)
FadePending ==
    \E i \in 1..Len(rafQueue \o frameBatch) :
        (rafQueue \o frameBatch)[i].kind = "fadeOutOutline"

\* C13: while the engine is paused a host commit invokes no consumer
\* callback and queues no outline; pausing leaves the active outlines and
\* their animation frame as they are, and every tick, paused or not,
\* advances each active outline by one frame or retires it.
PausedCommitsAreNotClassified ==
    [][/\ (isPaused /\ outcome' # "none") =>
            /\ callLog' = <<>>
            /\ UNCHANGED <<scheduledOutlines, activeOutlines, rafQueue, reportData>>
       /\ isPaused' # isPaused =>
            UNCHANGED <<activeOutlines, rafQueue, frameBatch, animationFrameId>>
       /\ activeOutlines' # <<>> => FadePending'
       /\ FadeOutOutline =>
            \A id \in ActiveIds(activeOutlines) :
                IF ActiveById(activeOutlines, id).frame + 1
                       > ActiveById(activeOutlines, id).totalFrames
                THEN id \notin ActiveIds(activeOutlines')
                ELSE /\ id \in ActiveIds(activeOutlines')
                     /\ ActiveById(activeOutlines', id).frame
                            = ActiveById(activeOutlines, id).frame + 1]_vars

\* A commit came while the engine was paused and an outline was fading: it
\* returned without a callback, the outline past its first tick.
PausedWhileFading ==
    /\ isPaused
    /\ outcome = "returned"
    /\ callLog = <<>>
    /\ \E i \in 1..Len(activeOutlines) : activeOutlines[i].frame >= 2

(***************************************************************************)
(* The color of a painted outline (SpecPaint).                             *)
(***************************************************************************)
\* The ActiveOutline the paint wrote: the first under the painted key.
Painted ==
    output.st.activeOutlines[
        IndexOfKey([i \in 1..Len(output.st.activeOutlines) |->
                        output.st.activeOutlines[i].outline],
                   getOutlineKey(input.outline.rect))]

Between(x, a, b) == (a <= x /\ x <= b) \/ (b <= x /\ x <= a)

\* C14: whatever maxRenders is configured, each channel of the color that
\* paintOutline computes lies between that channel's start and end colors:
\* r in [115,185], g in [49,97], b in [115,230].
ColorWithinStartAndEnd ==
    output.done =>
        /\ Between(Painted.color.r, 115, 185)
        /\ Between(Painted.color.g, 97, 49)
        /\ Between(Painted.color.b, 230, 115)

\* C15: an ActiveOutline that has gathered at least maxRenders renders,
\* in one paint or over several, has the end color exactly.
EndColorOnceMaxRendersGathered ==
    LET maxRenders == IF input.st.options.maxRenders = <<>> THEN DefaultMaxRenders
                      ELSE input.st.options.maxRenders[1]
    IN  (output.done /\ maxRenders >= 1
             /\ Len(Painted.outline.renders) >= maxRenders)
            => Painted.color = [r |-> 185, g |-> 49, b |-> 115]

(***************************************************************************)
(* The label (SpecLabel).                                                  *)
(***************************************************************************)
\* C16: the label text is null or at most 21 code units long, 20 of the
\* joined groups and the ellipsis, which is there only when the joined
\* text was longer than 20.
LabelAtMostTwentyOne ==
    output.done =>
        \/ output.text = NoLabel
        \/ /\ Len(output.text) <= 21
           /\ (\E i \in 1..Len(output.text) : output.text[i] = "ellipsis")
                  => /\ Len(labelJoined(input)) > 20
                     /\ Len(output.text) = 21
                     /\ output.text[21] = "ellipsis"
           /\ Len(labelJoined(input)) <= 20 => output.text = labelJoined(input)

\* A label cut to 20 code units and the ellipsis, from two components of
\* which the second is a trigger.
LabelCutShort ==
    /\ output.done
    /\ Len(output.text) = 21
    /\ output.text[21] = "ellipsis"
    /\ Len(input) = 2
    /\ Len(labelJoined(input)) > 30

(***************************************************************************)
(* Trigger roots (SpecCommit).                                             *)
(***************************************************************************)
\* C17: within one commit no node yields Render events both with trigger
\* and without, and each node yields at most one props Render and at most
\* one context Render.
EachNodeClassifiedOnce ==
    \A i, j \in 1..Len(callLog) :
        (/\ callLog[i].cb = "onRender"
         /\ callLog[j].cb = "onRender"
         /\ callLog[i].fiber = callLog[j].fiber)
            => /\ callLog[i].render.trigger = callLog[j].render.trigger
               /\ callLog[i].render.type = callLog[j].render.type => i = j

(***************************************************************************)
(* Dropped events (Spec).                                                  *)
(***************************************************************************)
\* The Render events of the commit just handled found no geometry: their
\* host node has no fresh rectangle after it.
Unresolved(log, cache) ==
    /\ RenderCalls(log) > 0
    /\ \A i \in 1..Len(log) :
           log[i].cb = "onRender" => cache[HostNode(log[i].fiber)] = NoRect

FlushPending ==
    \E i \in 1..Len(rafQueue \o frameBatch) :
        (rafQueue \o frameBatch)[i].kind \in {"flushOutlines", "flushOutlines2"}

\* A flush pass takes the whole queue into its second frame.
FlushTakesTheQueue ==
    FlushOutlines =>
        \/ scheduledOutlines = <<>> /\ UNCHANGED <<scheduledOutlines, rafQueue>>
        \/ /\ scheduledOutlines' = <<>>
           /\ rafQueue'[Len(rafQueue')].kind = "flushOutlines2"
           /\ rafQueue'[Len(rafQueue')].first = scheduledOutlines

\* The second frame paints every outline recalcOutlines did not remove.
SecondFramePaintsAll ==
    FrameStep("flushOutlines2") =>
        /\ scheduledOutlines' = <<>>
        /\ \A throttled \in BOOLEAN, dom \in Layouts(TRUE) :
             LET recalced == recalcOutlines(Running, dom, throttled)
                 window   == Head(Batch).first \o recalced.scheduledOutlines
                 painted  == \A key \in AllKeys :
                                HeldUnder(activeOutlines', key) =
                                    HeldUnder(recalced.activeOutlines, key)
                                        + Len(RendersUnder(window, key))
             IN  \/ painted
                 \/ \A recent \in SUBSET Rects :
                        ~Becomes(flushSecondFrame(Running, dom, Head(Batch).first,
                                                  Head(Batch).previous, throttled,
                                                  recent))

\* C19: no queued outline is lost and the protocol ends.  A flush takes
\* the whole queue into its second frame; the second frame paints every
\* outline that it holds or finds queued and that recalcOutlines did not
\* remove, so that the active set holds their renders; and with the frames
\* running, once the commits have stopped the queue is and stays empty and
\* no flush pass is pending.
FlushLosesNothingAndEnds ==
    /\ [][FlushTakesTheQueue /\ SecondFramePaintsAll]_vars
    /\ <>[](scheduledOutlines = <<>> /\ ~FlushPending)

\* Both events of a run were painted into one outline, nothing is queued
\* and no flush pass is pending.
FlushedAndPainted ==
    /\ scheduledOutlines = <<>>
    /\ ~FlushPending
    /\ \E i \in 1..Len(activeOutlines) : Len(activeOutlines[i].outline.renders) = 2

\* C20: outlines queued after a pass merged and painted are taken by the
\* same chain.  When the fade retires the last painted outline, so that
\* every paint of the pass is over, while outlines are queued, the chain
\* has called flushOutlines with the keys it painted: a second frame is
\* asked for that carries a non-empty set of keys to skip.
ChainFlushesAgainWithPaintedKeys ==
    [][(/\ FrameStep("fadeOutOutline")
        /\ activeOutlines # <<>>
        /\ activeOutlines' = <<>>
        /\ scheduledOutlines # <<>>)
          => \E i \in 1..Len(rafQueue') :
                /\ rafQueue'[i].kind = "flushOutlines2"
                /\ rafQueue'[i].previous # {}]_vars

(***************************************************************************)
(* The animation loop.                                                     *)
(***************************************************************************)
\* The fadeOutOutline callbacks asked for and not yet run.
Ticks ==
    {i \in 1..Len(rafQueue \o frameBatch) :
        (rafQueue \o frameBatch)[i].kind = "fadeOutOutline"}

\* C21: the animation loop drives itself and stops when idle.  At the end
\* of a tick another tick is asked for exactly when an outline is still
\* active; and with the frames running, once the commits have stopped the
\* active set is and stays empty and no tick is pending.
LoopDrivesItselfAndStops ==
    /\ [][FrameStep("fadeOutOutline") => ((Ticks' # {}) <=> (activeOutlines' # <<>>))]_vars
    /\ <>[](activeOutlines = <<>> /\ Ticks = {})

\* The loop has stopped after it retired what was painted: nothing is
\* active, no tick is pending, and a render is in the report.
LoopStoppedAfterFading ==
    /\ activeOutlines = <<>>
    /\ Ticks = {}
    /\ ~animationFrameId
    /\ nextId > 1
    /\ rafQueue \o frameBatch = <<>>

(***************************************************************************)
(* Geometry at the flush.                                                  *)
(***************************************************************************)
\* C22: the second frame resolves the geometry of the phase-1 outlines
\* again before it merges.  When recalcOutlines runs (it is not throttled)
\* and finds the document "dom", a phase-1 outline whose DOM node resolves
\* to a rectangle has its renders in the active set under the key of that
\* rectangle, and one whose node does not resolve leaves no active outline
\* of its fiber.
PhaseOneIsResolvedAgain ==
    [][FrameStep("flushOutlines2") =>
          \A dom \in Layouts(TRUE), recent \in SUBSET Rects :
              Becomes(flushSecondFrame(Running, dom, Head(Batch).first,
                                       Head(Batch).previous, FALSE, recent)) =>
                  \A i \in 1..Len(Head(Batch).first) :
                      LET outline == Head(Batch).first[i]
                          domNode == getDomNode(outline)
                          now     == getRect(dom, rectCache, domNode).rect
                      IN  domNode # NoNode =>
                              IF now = NoRect
                              THEN \A j \in 1..Len(activeOutlines') :
                                       activeOutlines'[j].outline.fiber # outline.fiber
                              ELSE HeldUnder(activeOutlines', getOutlineKey(now))
                                       >= Len(outline.renders)]_vars

\* C23: the active set is deduplicated by region key: no two active
\* outlines have the same key.
ActiveSetIsDeduplicated ==
    \A i, j \in 1..Len(activeOutlines) :
        getOutlineKey(activeOutlines[i].outline.rect)
            = getOutlineKey(activeOutlines[j].outline.rect) => i = j

(***************************************************************************)
(* Frames and alpha.                                                       *)
(***************************************************************************)
\* C24: between the callbacks every active outline has totalFrames 5 or 60
\* and 0 <= frame <= totalFrames, its alpha is within [0, 1], and so is the
\* alpha the next tick computes for it, baseAlpha * (1 - frame / totalFrames)
\* with baseAlpha 0.2 or 0.8 (alphas in 600ths).
FrameAndAlphaInRange ==
    \A i \in 1..Len(activeOutlines) :
        LET activeOutline == activeOutlines[i]
        IN  /\ activeOutline.totalFrames \in {StableFrames, UnstableFrames}
            /\ 0 <= activeOutline.frame
            /\ activeOutline.frame <= activeOutline.totalFrames
            /\ 0 <= activeOutline.alpha
            /\ activeOutline.alpha <= AlphaOf(10)
            /\ \A alphaScalar \in {AlphaOf(2), AlphaOf(8)} :
                   LET alpha == (alphaScalar * (activeOutline.totalFrames - activeOutline.frame))
                                    \div activeOutline.totalFrames
                   IN  0 <= alpha /\ alpha <= AlphaOf(10)

\* An outline that a later render repainted while it was fading (it holds
\* two renders and has the color of a one-render paint) has ticked again.
RepaintedWhileFading ==
    \E i \in 1..Len(activeOutlines) :
        /\ Len(activeOutlines[i].outline.renders) = 2
        /\ activeOutlines[i].color = OutlineColor(1, options.maxRenders)
        /\ activeOutlines[i].frame >= 1

\* C25: between the callbacks at most one tick of fadeOutOutline is
\* pending, a tick is pending whenever an outline is active, and
\* animationFrameId is set exactly when a tick is pending.
OneTickWhileActive ==
    /\ Cardinality(Ticks) <= 1
    /\ activeOutlines # <<>> => Ticks # {}
    /\ animationFrameId <=> Ticks # {}
\* An outline was painted while another one was fading, its tick pending:
\* there is still one tick.
PaintedWhileTicking ==
    /\ Cardinality(Ticks) = 1
    /\ \E i, j \in 1..Len(activeOutlines) :
          /\ activeOutlines[i].frame >= 1
          /\ activeOutlines[j].frame = 0

================================================================================
